---- MODULE Spec2Model ----
(***************************************************************************)
(* A model of the two UI components of the repository:                     *)
(*   client/src/components/image-uploader.tsx  (ImageUploader)             *)
(*   client/src/pages/gallery.tsx              (Gallery)                   *)
(* Each component is a state machine whose actions are its event handlers  *)
(* and the completions of the asynchronous work they start (FileReader     *)
(* events, HTTP responses).  The browser, the HTTP server and the UI       *)
(* libraries are the environment.                                          *)
(*                                                                         *)
(* JavaScript strings that the code inspects (MIME types, error messages)  *)
(* are sequences of one-character strings, so that startsWith, includes    *)
(* and toLowerCase are computed and not assumed.                           *)
(***************************************************************************)
EXTENDS Integers, Sequences, FiniteSets, TLC

VARIABLES
  \* ---- ImageUploader ----
  uploading,      \* useState(false), image-uploader.tsx:16
  preview,        \* useState(currentImageUrl || null), image-uploader.tsx:17
  fileInput,      \* fileInputRef.current.value: name of the chosen file or ""
  hasOnRemove,    \* whether the optional onRemove prop is supplied
  sels,           \* one record per change event that carried a file
  onRemoveCalls,  \* number of onRemove() invocations
  lastUploaded,   \* the argument of the last onImageUploaded call
  removedAfter,   \* the number of selections made before the last click on
                  \* the remove button
  \* ---- Gallery ----
  currentPage,         \* useState(1), gallery.tsx:16
  deletingImageId,     \* useState(null), gallery.tsx:18
  selectedImageIndex,  \* useState(null), gallery.tsx:19
  language,            \* i18n.language
  location,            \* the route (wouter)
  cache,               \* the query cache: page -> what useQuery holds for
                       \* the key ["/api/order-images", page, limit]
  fetching,            \* the pages whose GET is in flight
  deletes,             \* the DELETE calls issued, in order, with their state
  invalidations,       \* number of invalidateQueries calls
  serverImages,        \* the ids of the images the server holds
  navEvent             \* the arrow key the last event delivered to
                       \* handleKeyDown while the lightbox was open, and the
                       \* index it found

uploaderVars == <<uploading, preview, fileInput, hasOnRemove, sels,
                  onRemoveCalls, lastUploaded, removedAfter>>
galleryVars == <<currentPage, deletingImageId, selectedImageIndex, language,
                 location, cache, fetching, deletes, invalidations,
                 serverImages, navEvent>>
vars == <<uploaderVars, galleryVars>>

(***************************************************************************)
(* Bounds                                                                  *)
(***************************************************************************)
\* number of file selections one uploader receives
MaxSelections == 2
\* number of images the server holds when the gallery is opened
MaxImages == 3
\* the server returns at most this many images per page
ServerPageCap == 2
\* number of DELETE calls one gallery issues
MaxDeletes == 1

(***************************************************************************)
(* JavaScript string primitives                                            *)
(***************************************************************************)
UpperChars == <<"A","B","C","D","E","F","G","H","I","J","K","L","M",
                "N","O","P","Q","R","S","T","U","V","W","X","Y","Z">>
LowerChars == <<"a","b","c","d","e","f","g","h","i","j","k","l","m",
                "n","o","p","q","r","s","t","u","v","w","x","y","z">>

\* String.prototype.toLowerCase, one character
toLowerChar(c) ==
  IF \E k \in 1..26 : UpperChars[k] = c
  THEN LowerChars[CHOOSE k \in 1..26 : UpperChars[k] = c]
  ELSE c

\* String.prototype.toLowerCase
toLowerCase(s) == [k \in 1..Len(s) |-> toLowerChar(s[k])]

\* String.prototype.startsWith
startsWith(s, p) == Len(s) >= Len(p) /\ SubSeq(s, 1, Len(p)) = p

\* String.prototype.includes
includes(s, sub) ==
  \E k \in 0..(Len(s) - Len(sub)) : SubSeq(s, k + 1, k + Len(sub)) = sub

(***************************************************************************)
(* String literals of image-uploader.tsx                                   *)
(***************************************************************************)
STR_image_slash == <<"i","m","a","g","e","/">>
STR_jpeg == <<"i","m","a","g","e","/","j","p","e","g">>
STR_jpg  == <<"i","m","a","g","e","/","j","p","g">>
STR_png  == <<"i","m","a","g","e","/","p","n","g">>
STR_gif  == <<"i","m","a","g","e","/","g","i","f">>
STR_webp == <<"i","m","a","g","e","/","w","e","b","p">>
STR_heic == <<"i","m","a","g","e","/","h","e","i","c">>
STR_heif == <<"i","m","a","g","e","/","h","e","i","f">>
STR_InvalidFileType == <<"I","n","v","a","l","i","d"," ","f","i","l","e"," ","t","y","p","e">>
STR_only    == <<"o","n","l","y">>
STR_allowed == <<"a","l","l","o","w","e","d">>
STR_size    == <<"s","i","z","e">>
STR_5MB     == <<"5","M","B">>
STR_FailedToUploadImage == <<"F","a","i","l","e","d"," ","t","o"," ","u","p","l","o","a","d"," ","i","m","a","g","e">>

\* const validTypes = [...]
validTypes == {STR_jpeg, STR_jpg, STR_png, STR_gif, STR_webp, STR_heic, STR_heif}

\* 10 * 1024 * 1024
MaxFileSize == 10 * 1024 * 1024

(***************************************************************************)
(* Inputs of the uploader: the files the user can pick, the responses the  *)
(* server can give                                                         *)
(***************************************************************************)
TYPE_textPlain == <<"t","e","x","t","/","p","l","a","i","n">>
TYPE_HEIC_upper == <<"I","M","A","G","E","/","H","E","I","C">>
TYPE_pdf == <<"a","p","p","l","i","c","a","t","i","o","n","/","p","d","f">>

Files ==
  { [name |-> "a.png",  type |-> STR_png,         size |-> 1024],
    [name |-> "b.jpg",  type |-> STR_jpeg,        size |-> MaxFileSize],
    [name |-> "c.png",  type |-> STR_png,         size |-> MaxFileSize + 1],
    [name |-> "d.txt",  type |-> TYPE_textPlain,  size |-> 1024],
    [name |-> "e.HEIC", type |-> TYPE_HEIC_upper, size |-> 2048],
    [name |-> "f.pdf",  type |-> TYPE_pdf,        size |-> MaxFileSize + 1] }

MSG_invalidType == <<"I","n","v","a","l","i","d"," ","f","i","l","e"," ","t","y","p","e",","," ","o","n","l","y"," ","P","N","G"," ","a","l","l","o","w","e","d">>
MSG_sizeExceeds == <<"F","i","l","e"," ","s","i","z","e"," ","e","x","c","e","e","d","s"," ","l","i","m","i","t">>
MSG_max5MB == <<"M","a","x"," ","5","M","B">>
MSG_upTo5MBAllowed == <<"U","p"," ","t","o"," ","5","M","B"," ","a","l","l","o","w","e","d">>
MSG_internal == <<"I","n","t","e","r","n","a","l"," ","S","e","r","v","e","r"," ","E","r","r","o","r">>
MSG_failedToFetch == <<"F","a","i","l","e","d"," ","t","o"," ","f","e","t","c","h">>
MSG_empty == <<>>

\* the `message` field of a non-2xx response body (empty: no message)
ServerMessages ==
  {MSG_invalidType, MSG_sizeExceeds, MSG_max5MB, MSG_upTo5MBAllowed,
   MSG_internal, MSG_empty}

\* the message of an Error thrown by apiRequest itself (transport failure)
TransportMessages == {MSG_failedToFetch}

\* non-2xx statuses
FailureStatuses == {400}

\* string-like values held in `preview` and handed to the callbacks
Null == [scheme |-> "null", mediaType |-> <<>>, data |-> ""]
Url(u) == [scheme |-> "https", mediaType |-> <<>>, data |-> u]
\* the imageUrl of the response to the POST of selection i: the server
\* stores every upload under a name of its own
serverUrl(i) == Url(<<"uploads", i>>)

\* FileReader.readAsDataURL: "data:<type>;base64,<content of the file>"
DataUri(file) == [scheme |-> "data", mediaType |-> file.type, data |-> file.name]

\* t(key): the localized text of a translation key
t(key) == <<"t", key>>

(***************************************************************************)
(* ImageUploader: the pure parts of handleFileSelect                       *)
(***************************************************************************)
\* isValidType with the allow-list test negated
isValidType_negatedList(type) ==
  startsWith(type, STR_image_slash) \/ toLowerCase(type) \notin validTypes

\* const isValidType = file.type.startsWith('image/') ||
\*                     validTypes.includes(file.type.toLowerCase())
isValidType(type) ==
  startsWith(type, STR_image_slash) \/ toLowerCase(type) \in validTypes

\* no size check at all
isTooLarge_never(size) == FALSE

\* isTooLarge with >= for >
isTooLarge_inclusive(size) == size >= MaxFileSize

\* file.size > 10 * 1024 * 1024
isTooLarge(size) == size > MaxFileSize

\* thrownMessage that drops the server's message
thrownMessage_fixedText(message) == STR_FailedToUploadImage

\* error.message || 'Failed to upload image'   (the non-ok branch)
thrownMessage(message) ==
  IF message # <<>> THEN message ELSE STR_FailedToUploadImage

\* errorMessage without the '5MB' test
errorMessage_noSizeToken(message) ==
  IF message # <<>>
  THEN IF \/ includes(message, STR_InvalidFileType)
          \/ includes(message, STR_only)
          \/ includes(message, STR_allowed)
       THEN t("selectImageFile")
       ELSE IF includes(message, STR_size)
            THEN t("imageTooLarge")
            ELSE t("imageUploadFailed")
  ELSE t("imageUploadFailed")

\* the catch block of reader.onloadend: the description of the toast
errorMessage(message) ==
  IF message # <<>>
  THEN IF \/ includes(message, STR_InvalidFileType)
          \/ includes(message, STR_only)
          \/ includes(message, STR_allowed)
       THEN t("selectImageFile")
       ELSE IF includes(message, STR_size) \/ includes(message, STR_5MB)
            THEN t("imageTooLarge")
            ELSE t("imageUploadFailed")
  ELSE t("imageUploadFailed")

\* toast({title: t('error'), description, variant: "destructive"})
errorToast(description) ==
  [title |-> t("error"), description |-> description,
   variant |-> "destructive"]

\* toast({title: t('success'), description: t('imageUploadedSuccessfully')})
successToast ==
  [title |-> t("success"), description |-> t("imageUploadedSuccessfully"),
   variant |-> "default"]

\* the body of the POST to /api/upload-image
postBody(base64Data, file) ==
  [url |-> "/api/upload-image", imageData |-> base64Data,
   contentType |-> file.type]

\* the record kept for the i-th selection
\*   stage    "rejected" (validation failed), "reading" (FileReader at work),
\*            "posting" (POST in flight), "done" (response handled)
\*   result   what reader.result was when onloadend ran
\*   posts    the bodies of the POSTs issued for this selection
\*   outcome  "none", "success" or "failed"
\*   status, message  the response (status 0: apiRequest threw `message`)
\*   uploaded   the arguments of onImageUploaded for this selection
\*   shown      the arguments of setPreview for this selection
\*   toasts     the toasts shown for this selection, in order
newSelection(file, stage, shownToasts) ==
  [file |-> file, stage |-> stage, readFailed |-> FALSE, result |-> Null,
   posts |-> <<>>, outcome |-> "none", status |-> 0, message |-> <<>>,
   uploaded |-> <<>>, shown |-> <<>>, toasts |-> shownToasts]

\* the value of `uploading` once handleFileSelect has returned for a file
\* that passed validation: setUploading(true) at line 49, then the finally
\* block, which runs as soon as readAsDataURL has been started
uploadingAfterSelect == FALSE

\* the upload button is rendered when there is no preview; it is disabled
\* while `uploading`
uploadButtonEnabled == preview = Null /\ ~uploading

\* the remove button is rendered when there is a preview; it is disabled
\* while `uploading`
removeButtonEnabled == preview # Null /\ ~uploading

(***************************************************************************)
(* ImageUploader: the handlers                                             *)
(***************************************************************************)
\* The user picks `file` with the upload button: the browser puts it in the
\* input and fires change (only when the input's value changes), and
\* handleFileSelect runs to its return.  (A change event without a file
\* returns at line 24 and changes nothing.)  It has no await, so the finally
\* block runs in the same event.  readAsDataURL does not throw for a File,
\* so the catch block of lines 125-142 is never entered.
handleFileSelect(file) ==
  /\ uploadButtonEnabled
  /\ Len(sels) < MaxSelections
  /\ file.name # fileInput
  /\ IF ~isValidType(file.type)
     THEN /\ sels' = Append(sels, newSelection(file, "rejected",
                              <<errorToast(t("selectImageFile"))>>))
          /\ fileInput' = file.name
          /\ UNCHANGED uploading
     ELSE IF isTooLarge(file.size)
     THEN /\ sels' = Append(sels, newSelection(file, "rejected",
                              <<errorToast(t("imageTooLarge"))>>))
          /\ fileInput' = file.name
          /\ UNCHANGED uploading
     ELSE /\ sels' = Append(sels, newSelection(file, "reading", <<>>))
          /\ uploading' = uploadingAfterSelect
          /\ fileInput' = ""
  /\ UNCHANGED <<galleryVars, preview, hasOnRemove, onRemoveCalls,
                 lastUploaded, removedAfter>>

\* apiRequest issued twice (a retry)
issuePost_retried(posts, base64Data, file) ==
  Append(Append(posts, postBody(base64Data, file)), postBody(base64Data, file))

\* await apiRequest('POST', '/api/upload-image', {...}): the POSTs issued
\* for the selection so far
issuePost(posts, base64Data, file) == Append(posts, postBody(base64Data, file))

\* The read of selection i succeeds: the FileReader fires load and then
\* loadend; reader.onloadend runs up to its first await, which issues the
\* POST.
readerLoad(i) ==
  /\ i \in 1..Len(sels)
  /\ sels[i].stage = "reading"
  /\ LET base64Data == DataUri(sels[i].file) IN
     sels' = [sels EXCEPT ![i].stage = "posting",
                          ![i].result = base64Data,
                          ![i].posts = issuePost(@, base64Data, sels[i].file)]
  /\ UNCHANGED <<galleryVars, uploading, preview, fileInput, hasOnRemove,
                 onRemoveCalls, lastUploaded, removedAfter>>

\* The read of selection i fails: the FileReader fires error and then
\* loadend.  reader.onerror shows the failure toast, then reader.onloadend
\* runs as after a successful read, with reader.result null.
readerError(i) ==
  /\ i \in 1..Len(sels)
  /\ sels[i].stage = "reading"
  /\ uploading' = FALSE
  /\ fileInput' = ""
  /\ LET base64Data == Null IN
     sels' = [sels EXCEPT ![i].stage = "posting",
                          ![i].readFailed = TRUE,
                          ![i].result = base64Data,
                          ![i].toasts = Append(@, errorToast(t("imageUploadFailed"))),
                          ![i].posts = issuePost(@, base64Data, sels[i].file)]
  /\ UNCHANGED <<galleryVars, preview, hasOnRemove, onRemoveCalls,
                 lastUploaded, removedAfter>>

\* setPreview(base64Data): the argument
previewAfterUpload(base64Data, imageUrl) == base64Data

\* onImageUploaded(imageUrl): the argument
callbackArgument(base64Data, imageUrl) == imageUrl

\* The POST of selection i is answered 2xx with {imageUrl}: lines 70-86.
uploadSucceeded(i, imageUrl) ==
  /\ i \in 1..Len(sels)
  /\ sels[i].stage = "posting"
  /\ preview' = previewAfterUpload(sels[i].result, imageUrl)
  /\ sels' = [sels EXCEPT
       ![i].stage = "done",
       ![i].outcome = "success",
       ![i].status = 200,
       ![i].shown = Append(@, previewAfterUpload(sels[i].result, imageUrl)),
       ![i].uploaded = Append(@, callbackArgument(sels[i].result, imageUrl)),
       ![i].toasts = Append(@, successToast)]
  /\ lastUploaded' = callbackArgument(sels[i].result, imageUrl)
  /\ uploading' = FALSE
  /\ fileInput' = ""
  /\ UNCHANGED <<galleryVars, hasOnRemove, onRemoveCalls, removedAfter>>

\* the catch block of reader.onloadend, lines 87-109
uploadCatch(i, status, message, thrown) ==
  /\ sels' = [sels EXCEPT
       ![i].stage = "done",
       ![i].outcome = "failed",
       ![i].status = status,
       ![i].message = message,
       ![i].toasts = Append(@, errorToast(errorMessage(thrown)))]
  /\ uploading' = FALSE
  /\ fileInput' = ""
  /\ UNCHANGED <<galleryVars, preview, hasOnRemove, onRemoveCalls,
                 lastUploaded, removedAfter>>

\* The POST of selection i is answered with a non-2xx status and the body
\* {message}: lines 65-68, then the catch block.
uploadRejected(i, status, message) ==
  /\ i \in 1..Len(sels)
  /\ sels[i].stage = "posting"
  /\ uploadCatch(i, status, message, thrownMessage(message))

\* apiRequest itself throws (no response): the catch block.
uploadThrew(i, message) ==
  /\ i \in 1..Len(sels)
  /\ sels[i].stage = "posting"
  /\ uploadCatch(i, 0, message, message)

\* onRemove() called whether or not the prop is supplied
callsAfterRemove_unconditional(calls) == calls + 1

\* if (onRemove) { onRemove(); }: the number of calls made so far
callsAfterRemove(calls) == IF hasOnRemove THEN calls + 1 ELSE calls

\* The user clicks the remove button: lines 151-156.
handleRemove ==
  /\ removeButtonEnabled
  /\ preview' = Null
  /\ onRemoveCalls' = callsAfterRemove(onRemoveCalls)
  /\ removedAfter' = Len(sels)
  /\ UNCHANGED <<galleryVars, uploading, fileInput, hasOnRemove, sels,
                 lastUploaded>>

(***************************************************************************)
(* Gallery: state derived on every render                                  *)
(***************************************************************************)
\* const limit = 20
limit == 20

\* the route of the gallery; handleViewOrder leaves it for
\* `/orders?highlight=${orderId}`
galleryRoute == [path |-> "/gallery", highlight |-> 0]

\* useState<string | null>(null): no image id (ids are 1, 2, ...)
NoId == 0

\* useState<number | null>(null): no index (indices are 0, 1, ...)
NoIndex == -1

\* the last event was not an arrow key with the lightbox open
NoNav == [via |-> "none", from |-> NoIndex]

Min(a, b) == IF a < b THEN a ELSE b

Pages == 1..MaxImages

\* `data` is undefined: nothing fetched yet under this key
NoData ==
  [hasData |-> FALSE, stale |-> FALSE, images |-> <<>>,
   pagination |-> [page |-> 0, totalPages |-> 0, hasNext |-> FALSE,
                   hasPrevious |-> FALSE, total |-> 0]]

\* const { data, isLoading } = useQuery({queryKey: [..., currentPage, limit]})
data == cache[currentPage]
isLoading == ~data.hasData /\ currentPage \in fetching

\* const images = data?.images || []
images == IF data.hasData THEN data.images ELSE <<>>

\* const pagination = data?.pagination || {page: 1, totalPages: 1, ...}
pagination ==
  IF data.hasData THEN data.pagination
  ELSE [page |-> 1, totalPages |-> 1, hasNext |-> FALSE,
        hasPrevious |-> FALSE, total |-> 0]

\* const isRTL = i18n.language === 'ar'
isRTL == language = "ar"

\* images[selectedImageIndex]: defined only inside the array
indexInRange == selectedImageIndex >= 0 /\ selectedImageIndex < Len(images)

\* const selectedImage = selectedImageIndex !== null ? images[...] : null
\* (NoData.images[...] stands for undefined)
selectedImageId == IF indexInRange THEN images[selectedImageIndex + 1].id ELSE NoId

\* <AlertDialog open={!!deletingImageId}>
alertOpen == deletingImageId # NoId

\* <Dialog open={selectedImageIndex !== null}>
lightboxOpen == selectedImageIndex # NoIndex

\* the grid is rendered, and no modal dialog covers it
gridUsable ==
  /\ location = galleryRoute
  /\ ~isLoading /\ Len(images) # 0
  /\ ~alertOpen /\ ~lightboxOpen

\* the content of the lightbox is rendered ({selectedImage && ...}), and the
\* confirmation dialog does not cover it
lightboxUsable ==
  /\ location = galleryRoute
  /\ lightboxOpen /\ selectedImageId # NoId
  /\ ~alertOpen

\* {!isLoading && pagination.total > 0 && pagination.totalPages > 1 && ...}
paginationRendered ==
  ~isLoading /\ pagination.total > 0 /\ pagination.totalPages > 1

\* disabled={!pagination.hasPrevious}
previousEnabled == pagination.hasPrevious

\* a next control that is never disabled
nextEnabled_always == TRUE

\* disabled={!pagination.hasNext}
nextEnabled == pagination.hasNext

(***************************************************************************)
(* The server behind /api/order-images                                     *)
(***************************************************************************)
\* the ids of a set, in increasing order
RECURSIVE SortedSeq(_)
SortedSeq(S) ==
  IF S = {} THEN <<>>
  ELSE LET m == CHOOSE x \in S : \A y \in S : x <= y
       IN <<m>> \o SortedSeq(S \ {m})

\* an ImageRecord: its id and the id of its order
imageRecord(id) == [id |-> id, orderId |-> 100 + id]

\* GET /api/order-images?page=<page>&limit=<lim>: the server reports the
\* page and the flags truthfully
serverPage(page, lim) ==
  LET len == Min(lim, ServerPageCap)
      all == SortedSeq(serverImages)
      total == Len(all)
      totalPages == (total + len - 1) \div len
      from == (page - 1) * len + 1
      to == Min(page * len, total)
  IN [hasData |-> TRUE, stale |-> FALSE,
      images |-> [k \in 1..(IF to >= from THEN to - from + 1 ELSE 0) |->
                    imageRecord(all[from + k - 1])],
      pagination |-> [page |-> page, totalPages |-> totalPages,
                      hasNext |-> page < totalPages,
                      hasPrevious |-> page > 1, total |-> total]]

(***************************************************************************)
(* Gallery: the query layer                                                *)
(***************************************************************************)
\* The query key changes to `page`: the observer fetches when the key holds
\* no data or was invalidated; when it holds fresh data the fetch depends on
\* the client's staleTime, which is not fixed here (refetch is either).
pagesFetchedOnKey(page, refetch) ==
  IF ~cache[page].hasData \/ cache[page].stale \/ refetch
  THEN fetching \cup {page} ELSE fetching

\* queryClient.invalidateQueries({queryKey: ["/api/order-images"]}): every
\* page of the cache is marked stale and the active one is fetched again
invalidateQueries ==
  /\ cache' = [p \in Pages |-> [cache[p] EXCEPT !.stale = cache[p].hasData]]
  /\ fetching' = fetching \cup {currentPage}
  /\ invalidations' = invalidations + 1

\* the GET of `page` is answered 2xx
fetchSucceeded(page) ==
  /\ location = galleryRoute
  /\ page \in fetching
  /\ fetching' = fetching \ {page}
  /\ cache' = [cache EXCEPT ![page] = serverPage(page, limit)]
  /\ navEvent' = NoNav
  /\ UNCHANGED <<uploaderVars, currentPage, deletingImageId, selectedImageIndex, language,
                 location, deletes, invalidations, serverImages>>

\* the GET of `page` fails: queryFn throws, the data of the key stays
fetchFailed(page) ==
  /\ location = galleryRoute
  /\ page \in fetching
  /\ fetching' = fetching \ {page}
  /\ navEvent' = NoNav
  /\ UNCHANGED <<uploaderVars, currentPage, deletingImageId, selectedImageIndex, language,
                 location, cache, deletes, invalidations,
                 serverImages>>

(***************************************************************************)
(* Gallery: the handlers                                                   *)
(***************************************************************************)
\* a card of the grid is clicked: handleImageClick(index)
handleImageClick(index) ==
  /\ gridUsable
  /\ index \in 0..(Len(images) - 1)
  /\ selectedImageIndex' = index
  /\ navEvent' = NoNav
  /\ UNCHANGED <<uploaderVars, currentPage, deletingImageId, language, location, cache,
                 fetching, deletes, invalidations, serverImages>>

\* deleteImageMutation.mutate(imageId): mutationFn issues the DELETE
mutate(imageId) ==
  deletes' = Append(deletes, [url |-> <<"/api/order-images", imageId>>,
                              id |-> imageId, state |-> "pending",
                              toasts |-> <<>>])

\* handleDeleteClick that deletes at once, with no confirmation
handleDeleteClick_noConfirmation(index) ==
  /\ gridUsable
  /\ index \in 0..(Len(images) - 1)
  /\ Len(deletes) < MaxDeletes
  /\ mutate(images[index + 1].id)
  /\ navEvent' = NoNav
  /\ UNCHANGED <<uploaderVars, currentPage, deletingImageId, selectedImageIndex,
                 language, location, cache, fetching, invalidations,
                 serverImages>>

\* the delete button of a card is clicked: handleDeleteClick(e, imageData.id)
handleDeleteClick(index) ==
  /\ gridUsable
  /\ index \in 0..(Len(images) - 1)
  /\ deletingImageId' = images[index + 1].id
  /\ navEvent' = NoNav
  /\ UNCHANGED <<uploaderVars, currentPage, selectedImageIndex, language, location, cache,
                 fetching, deletes, invalidations, serverImages>>

\* the delete button of the lightbox: setDeletingImageId(selectedImage.id)
lightboxDeleteClick ==
  /\ lightboxUsable
  /\ deletingImageId' = selectedImageId
  /\ navEvent' = NoNav
  /\ UNCHANGED <<uploaderVars, currentPage, selectedImageIndex, language, location, cache,
                 fetching, deletes, invalidations, serverImages>>

\* the cancel button of the confirmation dialog:
\* onOpenChange(false), so setDeletingImageId(null)
cancelDelete ==
  /\ location = galleryRoute
  /\ alertOpen
  /\ deletingImageId' = NoId
  /\ navEvent' = NoNav
  /\ UNCHANGED <<uploaderVars, currentPage, selectedImageIndex, language, location, cache,
                 fetching, deletes, invalidations, serverImages>>

\* the action button of the confirmation dialog: confirmDelete, and the
\* dialog closes (AlertDialogAction): onOpenChange(false)
confirmDelete ==
  /\ location = galleryRoute
  /\ alertOpen
  /\ Len(deletes) < MaxDeletes
  /\ IF deletingImageId # NoId
     THEN mutate(deletingImageId)
     ELSE UNCHANGED deletes
  /\ deletingImageId' = NoId
  /\ navEvent' = NoNav
  /\ UNCHANGED <<uploaderVars, currentPage, selectedImageIndex, language, location, cache,
                 fetching, invalidations, serverImages>>

\* onSuccess and onError that leave deletingImageId as it is
idAfterCompletion_kept == deletingImageId

\* the value setDeletingImageId receives in onSuccess and in onError
idAfterCompletion == NoId

\* the k-th DELETE is answered 2xx (the server held the image and removed
\* it): onSuccess
deleteSucceeded(k) ==
  /\ location = galleryRoute
  /\ k \in 1..Len(deletes)
  /\ deletes[k].state = "pending"
  /\ deletes[k].id \in serverImages
  /\ serverImages' = serverImages \ {deletes[k].id}
  /\ deletes' = [deletes EXCEPT
       ![k].state = "success",
       ![k].toasts = Append(@, [title |-> t("success"),
                                description |-> t("imageDeletedSuccess"),
                                variant |-> "default"])]
  /\ invalidateQueries
  /\ deletingImageId' = idAfterCompletion
  /\ navEvent' = NoNav
  /\ UNCHANGED <<uploaderVars, currentPage, selectedImageIndex, language, location>>

\* the k-th DELETE fails (non-2xx, or apiRequest throws): onError
deleteFailed(k) ==
  /\ location = galleryRoute
  /\ k \in 1..Len(deletes)
  /\ deletes[k].state = "pending"
  /\ deletes' = [deletes EXCEPT
       ![k].state = "error",
       ![k].toasts = Append(@, [title |-> t("error"),
                                description |-> t("imageDeleteFailed"),
                                variant |-> "destructive"])]
  /\ deletingImageId' = idAfterCompletion
  /\ navEvent' = NoNav
  /\ UNCHANGED <<uploaderVars, currentPage, selectedImageIndex, language, location, cache,
                 fetching, invalidations, serverImages>>

\* goToPreviousImage: the new index
previousIndex(index) == IF index # NoIndex /\ index > 0 THEN index - 1 ELSE index

\* goToNextImage without the test against images.length
nextIndex_unclamped(index) == IF index # NoIndex THEN index + 1 ELSE index

\* goToNextImage: the new index
nextIndex(index) ==
  IF index # NoIndex /\ index < Len(images) - 1 THEN index + 1 ELSE index

\* the previous arrow of the lightbox, rendered when selectedImageIndex > 0
previousImageClick ==
  /\ lightboxUsable
  /\ selectedImageIndex > 0
  /\ selectedImageIndex' = previousIndex(selectedImageIndex)
  /\ navEvent' = NoNav
  /\ UNCHANGED <<uploaderVars, currentPage, deletingImageId, language, location, cache,
                 fetching, deletes, invalidations, serverImages>>

\* the next arrow of the lightbox, rendered when
\* selectedImageIndex < images.length - 1
nextImageClick ==
  /\ lightboxUsable
  /\ selectedImageIndex < Len(images) - 1
  /\ selectedImageIndex' = nextIndex(selectedImageIndex)
  /\ navEvent' = NoNav
  /\ UNCHANGED <<uploaderVars, currentPage, deletingImageId, language, location, cache,
                 fetching, deletes, invalidations, serverImages>>

Keys == {"Escape", "ArrowLeft", "ArrowRight"}

\* handleKeyDown without the isRTL tests
indexAfterKey_unmirrored(key) ==
  IF selectedImageIndex = NoIndex THEN selectedImageIndex
  ELSE IF key = "Escape" THEN NoIndex
  ELSE IF key = "ArrowLeft" THEN previousIndex(selectedImageIndex)
  ELSE IF key = "ArrowRight" THEN nextIndex(selectedImageIndex)
  ELSE selectedImageIndex

\* handleKeyDown: the index after the key
indexAfterKey(key) ==
  IF selectedImageIndex = NoIndex THEN selectedImageIndex
  ELSE IF key = "Escape" THEN NoIndex
  ELSE IF key = "ArrowLeft"
       THEN IF isRTL THEN nextIndex(selectedImageIndex)
                     ELSE previousIndex(selectedImageIndex)
  ELSE IF key = "ArrowRight"
       THEN IF isRTL THEN previousIndex(selectedImageIndex)
                     ELSE nextIndex(selectedImageIndex)
  ELSE selectedImageIndex

\* a key goes down: the window listener handleKeyDown runs; Escape also
\* dismisses the confirmation dialog when it is open (onOpenChange(false))
handleKeyDown(key) ==
  /\ location = galleryRoute
  /\ selectedImageIndex' = indexAfterKey(key)
  /\ deletingImageId' = IF key = "Escape" THEN NoId ELSE deletingImageId
  /\ navEvent' = IF lightboxOpen /\ key # "Escape"
                  THEN [via |-> key, from |-> selectedImageIndex]
                  ELSE NoNav
  /\ UNCHANGED <<uploaderVars, currentPage, language, location, cache, fetching, deletes,
                 invalidations, serverImages>>

\* the close button of the lightbox, or a click outside it:
\* setSelectedImageIndex(null)
closeLightbox ==
  /\ location = galleryRoute
  /\ lightboxOpen /\ ~alertOpen
  /\ selectedImageIndex' = NoIndex
  /\ navEvent' = NoNav
  /\ UNCHANGED <<uploaderVars, currentPage, deletingImageId, language, location, cache,
                 fetching, deletes, invalidations, serverImages>>

\* the view-order button of the lightbox: handleViewOrder(orderId)
handleViewOrder ==
  /\ lightboxUsable
  /\ selectedImageIndex' = NoIndex
  /\ location' = [path |-> "/orders", highlight |-> images[selectedImageIndex + 1].orderId]
  /\ navEvent' = NoNav
  /\ UNCHANGED <<uploaderVars, currentPage, deletingImageId, language, cache, fetching,
                 deletes, invalidations, serverImages>>

\* the controls of the pagination bar can be clicked
paginationUsable ==
  /\ location = galleryRoute
  /\ paginationRendered
  /\ ~alertOpen /\ ~lightboxOpen

\* onClick={() => setCurrentPage(currentPage - 1)}
previousPageClick(refetch) ==
  /\ paginationUsable
  /\ previousEnabled
  /\ currentPage - 1 \in Pages
  /\ currentPage' = currentPage - 1
  /\ fetching' = pagesFetchedOnKey(currentPage - 1, refetch)
  /\ navEvent' = NoNav
  /\ UNCHANGED <<uploaderVars, deletingImageId, selectedImageIndex, language, location,
                 cache, deletes, invalidations, serverImages>>

\* onClick={() => setCurrentPage(currentPage + 1)}
nextPageClick(refetch) ==
  /\ paginationUsable
  /\ nextEnabled
  /\ currentPage + 1 \in Pages
  /\ currentPage' = currentPage + 1
  /\ fetching' = pagesFetchedOnKey(currentPage + 1, refetch)
  /\ navEvent' = NoNav
  /\ UNCHANGED <<uploaderVars, deletingImageId, selectedImageIndex, language, location,
                 cache, deletes, invalidations, serverImages>>

(***************************************************************************)
(* Specifications                                                          *)
(***************************************************************************)
\* the gallery as it is before it is mounted
GalleryIdle ==
  /\ currentPage = 1
  /\ deletingImageId = NoId
  /\ selectedImageIndex = NoIndex
  /\ language = "en"
  /\ location = galleryRoute
  /\ cache = [p \in Pages |-> NoData]
  /\ fetching = {}
  /\ deletes = <<>>
  /\ invalidations = 0
  /\ serverImages = {}
  /\ navEvent = NoNav

\* the uploader as it is before it is mounted
UploaderIdle ==
  /\ uploading = FALSE
  /\ preview = Null
  /\ fileInput = ""
  /\ hasOnRemove = FALSE
  /\ sels = <<>>
  /\ onRemoveCalls = 0
  /\ lastUploaded = Null
  /\ removedAfter = 0

\* ImageUploader mounted, with or without currentImageUrl and onRemove
UploaderInit ==
  /\ uploading = FALSE
  /\ preview \in {Null, Url("x/old.png")}
  /\ fileInput = ""
  /\ hasOnRemove \in BOOLEAN
  /\ sels = <<>>
  /\ onRemoveCalls = 0
  /\ lastUploaded = Null
  /\ removedAfter = 0
  /\ GalleryIdle

UploaderNext ==
  \/ \E file \in Files : handleFileSelect(file)
  \/ \E i \in 1..MaxSelections : readerLoad(i)
  \/ \E i \in 1..MaxSelections : readerError(i)
  \/ \E i \in 1..MaxSelections : uploadSucceeded(i, serverUrl(i))
  \/ \E i \in 1..MaxSelections, st \in FailureStatuses, m \in ServerMessages :
       uploadRejected(i, st, m)
  \/ \E i \in 1..MaxSelections, m \in TransportMessages : uploadThrew(i, m)
  \/ handleRemove

SpecUploader == UploaderInit /\ [][UploaderNext]_vars

\* Gallery mounted: page 1 is being fetched
GalleryInit ==
  /\ currentPage = 1
  /\ deletingImageId = NoId
  /\ selectedImageIndex = NoIndex
  /\ language \in {"en", "ar"}
  /\ location = galleryRoute
  /\ cache = [p \in Pages |-> NoData]
  /\ fetching = {1}
  /\ deletes = <<>>
  /\ invalidations = 0
  /\ serverImages \in {1..n : n \in 0..MaxImages}
  /\ navEvent = NoNav
  /\ UploaderIdle

GalleryNext ==
  \/ \E index \in 0..(limit - 1) : handleImageClick(index)
  \/ \E index \in 0..(limit - 1) : handleDeleteClick(index)
  \/ lightboxDeleteClick
  \/ cancelDelete
  \/ confirmDelete
  \/ \E k \in 1..MaxDeletes : deleteSucceeded(k)
  \/ \E k \in 1..MaxDeletes : deleteFailed(k)
  \/ previousImageClick
  \/ nextImageClick
  \/ \E key \in Keys : handleKeyDown(key)
  \/ closeLightbox
  \/ handleViewOrder
  \/ \E refetch \in BOOLEAN : previousPageClick(refetch)
  \/ \E refetch \in BOOLEAN : nextPageClick(refetch)
  \/ \E page \in Pages : fetchSucceeded(page)
  \/ \E page \in Pages : fetchFailed(page)

SpecGallery == GalleryInit /\ [][GalleryNext]_vars

(***************************************************************************)
(* Properties of ImageUploader, checked under SpecUploader                 *)
(***************************************************************************)
\* the selections whose upload is in progress: validation passed, and the
\* answer to the POST is not handled yet
inFlight == {i \in 1..Len(sels) : sels[i].stage \in {"reading", "posting"}}

\* the message surfaced last for selection i
surfaced(i) == sels[i].toasts[Len(sels[i].toasts)].description

\* the claim's condition on a MIME type: it neither starts with image/ nor
\* is, in lower case, on the allow-list
typeOutsideImages(type) ==
  /\ ~startsWith(type, STR_image_slash)
  /\ toLowerCase(type) \notin
       {STR_jpeg, STR_jpg, STR_png, STR_gif, STR_webp, STR_heic, STR_heif}

\* C1: while an upload is in progress the upload control is disabled
\* (`uploading` is true), and at most one upload is in flight.
C1_AtMostOneUploadInFlight ==
  /\ inFlight # {} => (uploading /\ ~uploadButtonEnabled)
  /\ Cardinality(inFlight) <= 1

\* C2: a file whose type is outside image/* and the allow-list is rejected
\* with the "choose an image file" toast, and no POST is issued for it.
C2_InvalidTypeRejectedWithoutPost ==
  \A i \in 1..Len(sels) :
    typeOutsideImages(sels[i].file.type) =>
      /\ sels[i].stage = "rejected"
      /\ sels[i].posts = <<>>
      /\ sels[i].toasts = <<errorToast(t("selectImageFile"))>>

\* C2 witness: a file of an outside type was selected and rejected.
C2_Witness ==
  \E i \in 1..Len(sels) :
    /\ typeOutsideImages(sels[i].file.type)
    /\ sels[i].stage = "rejected"
    /\ Len(sels) = MaxSelections

\* C3: a file of more than 10,485,760 bytes is rejected, whatever its type,
\* and no POST is issued for it; a file of exactly 10,485,760 bytes with a
\* valid type is not rejected.
C3_TooLargeRejectedWithoutPost ==
  \A i \in 1..Len(sels) :
    /\ sels[i].file.size > 10485760 =>
         (sels[i].stage = "rejected" /\ sels[i].posts = <<>>)
    /\ (sels[i].file.size = 10485760 /\ ~typeOutsideImages(sels[i].file.type)) =>
         sels[i].stage # "rejected"

\* C3 witness: an image of 10,485,761 bytes was rejected, and the POST of a
\* file of exactly 10,485,760 bytes was issued.
C3_Witness ==
  /\ \E i \in 1..Len(sels) :
       /\ sels[i].file.size > 10485760
       /\ ~typeOutsideImages(sels[i].file.type)
       /\ sels[i].stage = "rejected"
  /\ \E i \in 1..Len(sels) :
       /\ sels[i].file.size = 10485760
       /\ Len(sels[i].posts) = 1

\* C4: when the POST of a selection is answered with {imageUrl: u},
\* onImageUploaded is called exactly once for it, with u; the preview becomes
\* the data URI of the file; the file input is empty afterwards.
C4_SuccessSetsPreviewAndCallsBack ==
  [][\A i \in 1..Len(sels) :
       (sels[i].stage = "posting" /\ sels'[i].outcome = "success") =>
         /\ sels'[i].uploaded = <<serverUrl(i)>>
         /\ preview' = DataUri(sels[i].file)
         /\ fileInput' = ""]_vars

\* C5: when the read of the file fails, the pipeline ends with the generic
\* failure toast: no POST is issued for the selection and no other toast
\* follows.
C5_EncodingFailureEndsPipeline ==
  \A i \in 1..Len(sels) :
    sels[i].readFailed =>
      /\ sels[i].posts = <<>>
      /\ sels[i].toasts = <<errorToast(t("imageUploadFailed"))>>

\* a step that ends a selection (rejection, failed read, handled response)
\* or removes the image
terminalStep ==
  \/ Len(sels') = Len(sels) + 1 /\ sels'[Len(sels')].stage = "rejected"
  \/ \E i \in 1..Len(sels) :
       \/ sels[i].stage # "done" /\ sels'[i].stage = "done"
       \/ ~sels[i].readFailed /\ sels'[i].readFailed
  \/ sels' = sels /\ preview # Null /\ preview' = Null

\* C6: the file input is empty after every terminal transition.
C6_InputResetOnEveryTerminalTransition ==
  [][terminalStep => fileInput' = ""]_vars

\* C7 as stated: a failed POST whose server message contains "size" or
\* "5MB" surfaces the too-large message.
C7_SizeWordsSurfaceTooLarge ==
  \A i \in 1..Len(sels) :
    (/\ sels[i].outcome = "failed"
     /\ sels[i].status # 0
     /\ \/ includes(sels[i].message, STR_size)
        \/ includes(sels[i].message, STR_5MB)) =>
      surfaced(i) = t("imageTooLarge")

\* C7 amended: a failed POST whose server message contains "size" or "5MB"
\* and none of "Invalid file type", "only", "allowed" surfaces the too-large
\* message.
C7_SizeWordsWithoutTypeWordsSurfaceTooLarge ==
  \A i \in 1..Len(sels) :
    (/\ sels[i].outcome = "failed"
     /\ sels[i].status # 0
     /\ \/ includes(sels[i].message, STR_size)
        \/ includes(sels[i].message, STR_5MB)
     /\ ~includes(sels[i].message, STR_InvalidFileType)
     /\ ~includes(sels[i].message, STR_only)
     /\ ~includes(sels[i].message, STR_allowed)) =>
      surfaced(i) = t("imageTooLarge")

\* C7 witness: "Max 5MB" and "File size exceeds limit" were both surfaced as
\* the too-large message.
C7_Witness ==
  /\ \E i \in 1..Len(sels) :
       /\ sels[i].outcome = "failed"
       /\ sels[i].message = MSG_max5MB
       /\ surfaced(i) = t("imageTooLarge")
  /\ \E i \in 1..Len(sels) :
       /\ sels[i].outcome = "failed"
       /\ sels[i].message = MSG_sizeExceeds
       /\ surfaced(i) = t("imageTooLarge")

\* C8: a non-2xx response whose message contains "Invalid file type", "only"
\* or "allowed" surfaces the file-type message; one whose message contains
\* none of these nor "size" nor "5MB" surfaces the generic failure message.
C8_TypeWordsSurfaceSelectImageFile ==
  \A i \in 1..Len(sels) :
    (sels[i].outcome = "failed" /\ sels[i].status # 0) =>
      /\ (\/ includes(sels[i].message, STR_InvalidFileType)
          \/ includes(sels[i].message, STR_only)
          \/ includes(sels[i].message, STR_allowed)) =>
           surfaced(i) = t("selectImageFile")
      /\ (/\ ~includes(sels[i].message, STR_InvalidFileType)
          /\ ~includes(sels[i].message, STR_only)
          /\ ~includes(sels[i].message, STR_allowed)
          /\ ~includes(sels[i].message, STR_size)
          /\ ~includes(sels[i].message, STR_5MB)) =>
           surfaced(i) = t("imageUploadFailed")

\* C8 witness: status 400 with "Invalid file type, only PNG allowed" was
\* surfaced as the file-type message, and status 400 with "Internal Server
\* Error" as the generic one.
C8_Witness ==
  /\ \E i \in 1..Len(sels) :
       /\ sels[i].outcome = "failed"
       /\ sels[i].status = 400
       /\ sels[i].message = MSG_invalidType
       /\ surfaced(i) = t("selectImageFile")
  /\ \E i \in 1..Len(sels) :
       /\ sels[i].outcome = "failed"
       /\ sels[i].status = 400
       /\ sels[i].message = MSG_internal
       /\ surfaced(i) = t("imageUploadFailed")

(***************************************************************************)
(* Properties of Gallery, checked under SpecGallery                        *)
(***************************************************************************)
\* the toasts of the gallery
deleteSuccessToast ==
  [title |-> t("success"), description |-> t("imageDeletedSuccess"),
   variant |-> "default"]
deleteFailureToast ==
  [title |-> t("error"), description |-> t("imageDeleteFailed"),
   variant |-> "destructive"]

\* C9: a DELETE is issued only by a confirmation of the open dialog: a step
\* issues at most one DELETE, only as confirmDelete, addressed to
\* /api/order-images/<id the dialog is open for>; opening the dialog (grid or
\* lightbox) and cancelling it issue no network call.
C9_DeleteOnlyOnConfirmation ==
  [][/\ Len(deletes') \in {Len(deletes), Len(deletes) + 1}
     /\ \A k \in 1..Len(deletes) :
          deletes'[k].id = deletes[k].id /\ deletes'[k].url = deletes[k].url
     /\ Len(deletes') = Len(deletes) + 1 =>
          /\ confirmDelete
          /\ alertOpen
          /\ deletes'[Len(deletes')].id = deletingImageId
          /\ deletes'[Len(deletes')].url = <<"/api/order-images", deletingImageId>>
     /\ (\/ cancelDelete
         \/ lightboxDeleteClick
         \/ \E index \in 0..(limit - 1) : handleDeleteClick(index)) =>
          (deletes' = deletes /\ fetching' = fetching)
     /\ (lightboxDeleteClick \/ \E index \in 0..(limit - 1) : handleDeleteClick(index)) =>
          deletingImageId' \in {images[k].id : k \in 1..Len(images)}
    ]_vars

\* C9 witness: one confirmation has been given, for an image of the page,
\* and its DELETE is in flight.
C9_Witness ==
  /\ Len(deletes) = 1
  /\ deletes[1].state = "pending"
  /\ ~alertOpen
  /\ deletes[1].id \in {images[k].id : k \in 1..Len(images)}

\* C10: when a DELETE completes, deletingImageId is null afterwards; on
\* success the query cache is invalidated, the current page is fetched again
\* and the success toast is shown; on failure the failure toast is shown and
\* nothing is invalidated or fetched.
C10_DeleteCompletion ==
  [][\A k \in 1..Len(deletes) :
       (deletes[k].state = "pending" /\ deletes'[k].state # "pending") =>
         /\ deletingImageId' = NoId
         /\ deletes'[k].state = "success" =>
              /\ invalidations' = invalidations + 1
              /\ currentPage \in fetching'
              /\ \A p \in Pages : cache[p].hasData => cache'[p].stale
              /\ deletes'[k].toasts = <<deleteSuccessToast>>
         /\ deletes'[k].state = "error" =>
              /\ invalidations' = invalidations
              /\ fetching' = fetching
              /\ cache' = cache
              /\ deletes'[k].toasts = <<deleteFailureToast>>
    ]_vars

\* C10 witness: a DELETE has succeeded: the cache was invalidated, the page
\* is being fetched again, the success toast was shown and the dialog is
\* closed.
C10_Witness ==
  /\ Len(deletes) = 1
  /\ deletes[1].state = "success"
  /\ deletes[1].toasts = <<deleteSuccessToast>>
  /\ invalidations = 1
  /\ currentPage \in fetching
  /\ cache[currentPage].stale
  /\ deletingImageId = NoId

\* the arrow keys
ArrowKeys == {"ArrowLeft", "ArrowRight"}

\* what the claims expect of previous and of next at index i of n images
previousOf(i) == IF i = 0 THEN 0 ELSE i - 1
nextOf(i, n) == IF i = n - 1 THEN i ELSE i + 1

\* C11: with the lightbox open at an index of 0..n-1 of a page of n images,
\* every next or previous invocation (arrow button or arrow key) leaves the
\* index in 0..n-1: a button moves it by exactly 1 in its direction, a key
\* performs previous or next, previous at 0 and next at n-1 change nothing,
\* and nothing wraps around.
C11_IndexMovesByOneAndIsClamped ==
  [][LET i == selectedImageIndex
         n == Len(images)
     IN (lightboxOpen /\ i \in 0..(n - 1)) =>
          /\ previousImageClick => (i > 0 /\ selectedImageIndex' = i - 1)
          /\ nextImageClick => (i < n - 1 /\ selectedImageIndex' = i + 1)
          /\ \A key \in ArrowKeys :
               handleKeyDown(key) =>
                 selectedImageIndex' \in {previousOf(i), nextOf(i, n)}
          /\ (\/ previousImageClick
              \/ nextImageClick
              \/ \E key \in ArrowKeys : handleKeyDown(key)) =>
               /\ Len(images') = n
               /\ selectedImageIndex' \in 0..(n - 1)
    ]_vars

\* C11 witness: an arrow key was pressed at the last index of a page of at
\* least two images, and the index is still the last one.
C11_Witness ==
  /\ lightboxOpen
  /\ Len(images) >= 2
  /\ navEvent.via \in ArrowKeys
  /\ navEvent.from = Len(images) - 1
  /\ selectedImageIndex = Len(images) - 1

\* C12: a page control acts only when the response held for the current
\* page reports the matching flag (previous: hasPrevious, next: hasNext); a
\* click changes currentPage by exactly 1, the page changes in no other way,
\* and an enabled control is never held back by the client.  On page 2 with
\* hasPrevious and without hasNext, next is disabled, previous is enabled and
\* a click on previous sets the page to 1.
C12_PageControlsFollowServerFlags ==
  [][/\ (\E refetch \in BOOLEAN : previousPageClick(refetch)) =>
          (pagination.hasPrevious /\ currentPage' = currentPage - 1)
     /\ (\E refetch \in BOOLEAN : nextPageClick(refetch)) =>
          (pagination.hasNext /\ currentPage' = currentPage + 1)
     /\ currentPage' \in {currentPage - 1, currentPage, currentPage + 1}
     /\ currentPage' = currentPage - 1 => pagination.hasPrevious
     /\ currentPage' = currentPage + 1 => pagination.hasNext
     /\ (paginationUsable /\ previousEnabled) => currentPage - 1 \in Pages
     /\ (paginationUsable /\ nextEnabled) => currentPage + 1 \in Pages
     /\ (/\ currentPage = 2
         /\ paginationUsable
         /\ pagination.hasPrevious /\ ~pagination.hasNext) =>
          /\ previousEnabled /\ ~nextEnabled
          /\ currentPage' # currentPage => currentPage' = 1
    ]_vars

\* C12 witness: the response for page 2 reported hasPrevious and no hasNext,
\* the user clicked previous there, and the page is 1.
C12_Witness ==
  /\ currentPage = 1
  /\ cache[2].hasData
  /\ cache[2].pagination.hasPrevious /\ ~cache[2].pagination.hasNext
  /\ cache[2].pagination.totalPages = 2
  /\ fetching = {}

(***************************************************************************)
(* Further properties of ImageUploader, checked under SpecUploader         *)
(***************************************************************************)
\* C13: a click on the remove button empties the preview, calls onRemove
\* once when the prop is supplied and not at all otherwise, and does nothing
\* else: no POST is issued, onImageUploaded is not called, no selection
\* changes; onRemove is called by nothing but that click.
C13_RemoveIsLocal ==
  [][/\ handleRemove =>
          /\ preview # Null /\ preview' = Null
          /\ onRemoveCalls' = onRemoveCalls + (IF hasOnRemove THEN 1 ELSE 0)
          /\ sels' = sels
          /\ \A i \in 1..Len(sels) :
               /\ sels'[i].posts = sels[i].posts
               /\ sels'[i].uploaded = sels[i].uploaded
          /\ UNCHANGED <<uploading, fileInput, hasOnRemove>>
     /\ onRemoveCalls' # onRemoveCalls => handleRemove
    ]_vars

\* C13 witness: an uploaded image was removed, by an uploader with onRemove,
\* and onRemove has been called once.
C13_Witness ==
  /\ preview = Null
  /\ hasOnRemove /\ onRemoveCalls = 1
  /\ \E i \in 1..Len(sels) :
       /\ sels[i].outcome = "success"
       /\ sels[i].shown = <<DataUri(sels[i].file)>>
       /\ Len(sels[i].posts) = 1

\* C14: a selection that passed validation has no POST while its file is
\* being read and exactly one POST to /api/upload-image from the end of the
\* read on, whatever the outcome of the read and of the POST: there is no
\* second call and no retry.  A rejected selection has none.
C14_ExactlyOnePostPerValidatedSelection ==
  \A i \in 1..Len(sels) :
    /\ Len(sels[i].posts) <= 1
    /\ sels[i].stage \in {"rejected", "reading"} => sels[i].posts = <<>>
    /\ sels[i].stage \in {"posting", "done"} =>
         /\ Len(sels[i].posts) = 1
         /\ sels[i].posts[1].url = "/api/upload-image"
    /\ (sels[i].stage # "rejected") =
         (isValidType(sels[i].file.type) /\ ~isTooLarge(sels[i].file.size))

\* C14 witness: two validated selections have ended, one with a failed POST
\* and one with a successful POST, and each has one POST.
C14_Witness ==
  /\ Len(sels) = 2
  /\ \A i \in 1..2 : sels[i].stage = "done" /\ Len(sels[i].posts) = 1
  /\ \E i \in 1..2 : sels[i].outcome = "failed" /\ ~sels[i].readFailed
  /\ \E i \in 1..2 : sels[i].outcome = "success" /\ ~sels[i].readFailed

(***************************************************************************)
(* Further properties of Gallery, checked under SpecGallery                *)
(***************************************************************************)
\* C15: with the lightbox open on an image of the page, ArrowLeft performs
\* previous and ArrowRight next when the language is not Arabic, and
\* ArrowLeft performs next and ArrowRight previous when it is Arabic, clamped
\* at both ends alike; with the lightbox closed an arrow key changes nothing.
C15_ArrowKeysMirroredByLocale ==
  [][LET i == selectedImageIndex
         n == Len(images)
     IN /\ (lightboxOpen /\ i \in 0..(n - 1)) =>
             /\ handleKeyDown("ArrowLeft") =>
                  selectedImageIndex' =
                    IF language = "ar" THEN nextOf(i, n) ELSE previousOf(i)
             /\ handleKeyDown("ArrowRight") =>
                  selectedImageIndex' =
                    IF language = "ar" THEN previousOf(i) ELSE nextOf(i, n)
        /\ ~lightboxOpen =>
             \A key \in ArrowKeys :
               /\ indexAfterKey(key) = NoIndex
               /\ handleKeyDown(key) =>
                    UNCHANGED <<currentPage, deletingImageId,
                                selectedImageIndex, language, location, cache,
                                fetching, deletes, invalidations,
                                serverImages>>
    ]_vars

\* C15 witness: in Arabic, ArrowLeft was pressed at index 0 and the index is
\* 1.
C15_Witness ==
  /\ language = "ar"
  /\ navEvent = [via |-> "ArrowLeft", from |-> 0]
  /\ selectedImageIndex = 1
  /\ Len(images) >= 2

(***************************************************************************)
(* Notifications                                                           *)
(***************************************************************************)
\* the number of toasts shown for the first k selections of ss
RECURSIVE toastsShown(_, _)
toastsShown(ss, k) ==
  IF k = 0 THEN 0 ELSE Len(ss[k].toasts) + toastsShown(ss, k - 1)

\* C16: every step that ends an upload (validation rejection, failed read,
\* handled response, success) or removes the image shows a toast, and so
\* does every step that completes a DELETE.
C16_NotificationOnEveryTerminalState ==
  [][/\ terminalStep =>
          toastsShown(sels', Len(sels')) > toastsShown(sels, Len(sels))
     /\ \A k \in 1..Len(deletes) :
          (deletes[k].state = "pending" /\ deletes'[k].state # "pending") =>
            Len(deletes'[k].toasts) = Len(deletes[k].toasts) + 1
    ]_vars

(***************************************************************************)
(* Validation and failure leave the uploader as it was                     *)
(***************************************************************************)
\* the step is a change event: a selection is added
selectionStep == Len(sels') = Len(sels) + 1

\* the step rejected the file it received, and changed nothing but the
\* file input and the record of that selection
rejectionLeavesIdle ==
  LET s == sels'[Len(sels')] IN
  s.stage = "rejected" =>
    /\ uploading' = FALSE
    /\ preview' = preview
    /\ s.uploaded = <<>> /\ s.posts = <<>> /\ s.shown = <<>>
    /\ \A i \in 1..Len(sels) : sels'[i] = sels[i]
    /\ onRemoveCalls' = onRemoveCalls

\* C17 as stated: every file of more than 10 MiB is rejected with the
\* too-large toast, and a rejection leaves uploading false, the preview as
\* it was and onImageUploaded uncalled.
C17_EveryLargeFileGetsTooLarge ==
  [][selectionStep =>
       LET s == sels'[Len(sels')] IN
       /\ s.file.size > 10485760 =>
            /\ s.stage = "rejected"
            /\ s.toasts = <<errorToast(t("imageTooLarge"))>>
       /\ rejectionLeavesIdle
    ]_vars

\* C17 amended: every file of an accepted type and of more than 10 MiB is
\* rejected with the too-large toast, a file of a type that is not accepted
\* is rejected with the file-type toast whatever its size, and a rejection
\* leaves uploading false, the preview as it was and onImageUploaded
\* uncalled.
C17_LargeFileOfAcceptedTypeGetsTooLarge ==
  [][selectionStep =>
       LET s == sels'[Len(sels')] IN
       /\ (s.file.size > 10485760 /\ ~typeOutsideImages(s.file.type)) =>
            /\ s.stage = "rejected"
            /\ s.toasts = <<errorToast(t("imageTooLarge"))>>
       /\ typeOutsideImages(s.file.type) =>
            /\ s.stage = "rejected"
            /\ s.toasts = <<errorToast(t("selectImageFile"))>>
       /\ rejectionLeavesIdle
    ]_vars

\* C17 witness: an image of 10,485,761 bytes was rejected as too large and a
\* PDF of the same size as not an image; nothing was uploaded.
C17_Witness ==
  /\ Len(sels) = 2
  /\ \E i \in 1..2 :
       /\ sels[i].file.size > 10485760
       /\ ~typeOutsideImages(sels[i].file.type)
       /\ sels[i].toasts = <<errorToast(t("imageTooLarge"))>>
  /\ \E i \in 1..2 :
       /\ sels[i].file.size > 10485760
       /\ typeOutsideImages(sels[i].file.type)
       /\ sels[i].toasts = <<errorToast(t("selectImageFile"))>>
  /\ \A i \in 1..2 : sels[i].stage = "rejected" /\ sels[i].uploaded = <<>>
  /\ ~uploading /\ preview = Null

\* the upload of selection i has failed: its read failed, or its POST was
\* answered with a failure or threw
uploadFailed(ss, i) == ss[i].readFailed \/ ss[i].outcome = "failed"

\* C18: the step at which an upload fails after validation (failed read,
\* transport error, non-2xx response) leaves the preview as it was and
\* `uploading` false, and for a selection whose upload has failed neither
\* onImageUploaded nor setPreview is ever called.
C18_FailureRevertsToStableState ==
  [][\A i \in 1..Len(sels) :
       /\ (~uploadFailed(sels, i) /\ uploadFailed(sels', i)) =>
            (preview' = preview /\ uploading' = FALSE)
       /\ uploadFailed(sels', i) =>
            (sels'[i].uploaded = <<>> /\ sels'[i].shown = <<>>)
    ]_vars

(***************************************************************************)
(* The index of the lightbox and the page number against the data          *)
(***************************************************************************)
\* C19: whenever the lightbox is open, the selected index is an index of the
\* images of the page held: 0 <= selectedImageIndex < images.length.
C19_OpenLightboxShowsAnImageOfThePage ==
  lightboxOpen => (0 <= selectedImageIndex /\ selectedImageIndex < Len(images))

\* the GET of the current page has been answered and none is in flight
fetchSettled == data.hasData /\ currentPage \notin fetching

\* C20: once the GET of the current page has settled, currentPage is within
\* 1..max(1, totalPages) of the response held, and when currentPage is
\* greater than 1 the previous control is rendered and enabled.
C20_PageWithinTotalPages ==
  fetchSettled =>
    /\ currentPage >= 1
    /\ currentPage <= (IF pagination.totalPages > 1
                       THEN pagination.totalPages ELSE 1)
    /\ currentPage > 1 => (paginationRendered /\ previousEnabled)

(***************************************************************************)
(* Concurrency: completions that arrive after the user has moved on        *)
(***************************************************************************)
\* C21: an open confirmation dialog is dismissed, or its target changed,
\* only by the user confirming or cancelling it (cancel button or Escape);
\* the completion of the DELETE of another image leaves deletingImageId as
\* it is.
C21_ConfirmationOutlivesEarlierDelete ==
  [][/\ (deletingImageId # NoId /\ deletingImageId' # deletingImageId) =>
          (confirmDelete \/ cancelDelete \/ handleKeyDown("Escape"))
     /\ \A k \in 1..Len(deletes) :
          (/\ deletes[k].state = "pending"
           /\ deletes'[k].state # "pending"
           /\ deletes[k].id # deletingImageId) =>
            deletingImageId' = deletingImageId
    ]_vars

\* the selections uploaded successfully
succeeded == {i \in 1..Len(sels) : sels[i].outcome = "success"}

\* the most recently selected of them
lastSucceeded == CHOOSE m \in succeeded : \A i \in succeeded : i <= m

\* C22: (a) once no upload is in flight, the URL last handed to
\* onImageUploaded is that of the most recently selected file whose upload
\* succeeded, and the preview is the data URI of that file, or empty after a
\* removal that followed its selection; (b) a preview that is not the
\* initial one is the data URI of a file selected after the last removal;
\* (c) the success of a selection made before one that has already
\* succeeded changes neither the preview nor the URL delivered.
C22_LatestSelectionWins ==
  [][/\ (inFlight' = {} /\ succeeded' # {}) =>
          /\ lastUploaded' = serverUrl(lastSucceeded')
          /\ \/ preview' = DataUri(sels'[lastSucceeded'].file)
             \/ preview' = Null /\ removedAfter' >= lastSucceeded'
     /\ (preview' # Null /\ (succeeded' # {} \/ removedAfter' > 0)) =>
          \E i \in succeeded' :
            i > removedAfter' /\ preview' = DataUri(sels'[i].file)
     /\ \A i \in 1..Len(sels) :
          (/\ sels[i].outcome # "success" /\ sels'[i].outcome = "success"
           /\ \E j \in succeeded : j > i) =>
            (preview' = preview /\ lastUploaded' = lastUploaded)
    ]_vars

====
